---- MODULE Spec2Model ----
(***************************************************************************)
(* rss2x.py: polls the RSS feeds of every configured account, tweets the   *)
(* newest entry that is not yet in the SQLite table posted_entries, and    *)
(* exits.  The model follows main() statement by statement; the outcomes   *)
(* of the outside world (feed server, Twitter API, SQLite, the user) are   *)
(* drawn nondeterministically at the call that observes them.              *)
(***************************************************************************)
EXTENDS Integers, Sequences, FiniteSets, TLC

\* ------------------------------------------------------------------ bounds
\* longest feed (number of entries) drawn in Init
MaxEntries == 3
\* number of consecutive runs of the script against the same database file
MaxRuns == 2
\* most chunks a streamed image body has
MaxChunks == 2
\* last second of the clock that names the temp files of download_image
MaxClock == 2

\* ------------------------------------------------------- program constants
DEFAULT_DELAY == 30

\* ------------------------------------------------------------- input pools
\* A parsed feed entry: id / link are "" when the field is absent
\* (entry.get(...) is then None, which is falsy like ""); image says whether
\* the entry carries a media reference.
E1 == [id |-> "e1", link |-> "l1", image |-> TRUE]
E2 == [id |-> "",   link |-> "l2", image |-> FALSE]
E3 == [id |-> "e3", link |-> "",   image |-> TRUE]
E0 == [id |-> "",   link |-> "",   image |-> FALSE]
EntryPool == {E1, E2, E3, E0}

FeedUrls == {"f1", "f2"}

\* sequences over S of length at most n, without repetition
InjSeqs(S, n) ==
    {s \in UNION {[1..k -> S] : k \in 0..n} :
        \A i, j \in DOMAIN s : i # j => s[i] # s[j]}

FeedSeqs == InjSeqs(EntryPool, MaxEntries)

\* Account definition files of the config directory.  complete = FALSE
\* stands for a file with a required field missing; api_key = "" for a
\* credential that is present but empty.
AccountA    == [account_name |-> "A", complete |-> TRUE, api_key |-> "k",
                rss_feeds |-> <<"f1", "f2">>, delay_seconds |-> DEFAULT_DELAY]
AccountB    == [account_name |-> "B", complete |-> TRUE, api_key |-> "k",
                rss_feeds |-> <<"f1">>, delay_seconds |-> 0 - 1]
AccountNoKey == [account_name |-> "N", complete |-> TRUE, api_key |-> "",
                rss_feeds |-> <<"f2">>, delay_seconds |-> DEFAULT_DELAY]
AccountBad  == [account_name |-> "X", complete |-> FALSE, api_key |-> "k",
                rss_feeds |-> <<"f1">>, delay_seconds |-> DEFAULT_DELAY]
AccountNoFeeds == [account_name |-> "Y", complete |-> TRUE, api_key |-> "k",
                rss_feeds |-> <<>>, delay_seconds |-> DEFAULT_DELAY]
AccountSolo == [account_name |-> "S", complete |-> TRUE, api_key |-> "k",
                rss_feeds |-> <<"f1">>, delay_seconds |-> DEFAULT_DELAY]

VARIABLES
    pc,          \* position of the process in main() / __main__
    run,         \* number of the current run of the script
    configFiles, \* the *.json files of CONFIG_DIR, sorted
    feed,        \* feed URL -> entries the feed server serves, in feed order
    posted_entries, \* rows of table posted_entries, in insertion order
    runStart,    \* number of rows when the current run started
    prevStart,   \* number of rows when the previous run started
    configs,     \* main: configs
    ai,          \* main: index of `config` in configs
    fi,          \* main: index of `feed_url` in feeds
    feed_url,    \* main: feed_url
    elevated,    \* main: elevated
    post,        \* main: post (<<>> is None, <<e>> an entry)
    retrieved,   \* the last get_latest_post retrieved and parsed its feed
    failedQueries, \* positions whose dedup query raised in the last scan
    published,   \* the update_status call of post_to_twitter returned
    apiCalls,    \* calls post_to_twitter made for the current post
    paced,       \* time.sleep(delay_seconds) of post_to_twitter completed
    markResult,  \* how the last mark_entry_as_posted call ended
    apiOK,       \* accounts whose client initialised in this run
    apiFailed,   \* accounts skipped in this run
    probed,      \* accounts probed in this run, in order
    probeTweet,  \* throwaway tweet of the last probe: "none", "live", "deleted"
    lastProbe,   \* the last probe: account index, what its steps met, result
    passed,      \* `elevated` argument of the last post_to_twitter call
    markedBy,    \* per row of posted_entries: the account that inserted it, 0 = earlier
    publishLog,  \* post_to_twitter calls of this run: account, feed, outcome, sleep
    fetched,     \* <<account index, feed index>> pairs fetched in this run
    cause,       \* why the process ended ("running" while it has not)
    exitCode,    \* process exit code (-1 while running)
    dl_pc,       \* position inside download_image ("idle" outside of it)
    dl_clock,    \* int(time.time())
    dl_files,    \* temp_image_<n>.jpg files that exist in BASE_DIR, by n
    dl_name,     \* download_image: filename (its n)
    dl_chunks,   \* chunks the response body has
    dl_written,  \* chunks written to the file so far
    dl_result    \* what download_image returned: <<>> is None, <<n>> a path

dlvars == <<dl_pc, dl_clock, dl_files, dl_name, dl_chunks, dl_written, dl_result>>

vars == <<dlvars, pc, run, configFiles, feed, posted_entries, runStart, prevStart,
          configs, ai, fi, feed_url, elevated, post, retrieved, failedQueries,
          published, apiCalls, paced, markResult, apiOK, apiFailed, probed, probeTweet,
          lastProbe, passed, publishLog, markedBy, fetched, cause, exitCode>>

\* ------------------------------------------------------ dedup store (SQLite)
Key(url, entry_id) == <<url, entry_id>>

Rows(rows) == {rows[i] : i \in DOMAIN rows}

\* entry_already_posted: SELECT 1 ... WHERE feed_url = ? AND entry_id = ?;
\* a sqlite3.Error (queryRaises) is logged and answered False.
AlreadyPostedSwappedKey(rows, url, entry_id, queryRaises) ==
    IF queryRaises THEN FALSE
    ELSE \E i \in DOMAIN rows : rows[i] = Key(entry_id, url)

AlreadyPostedWhenQueryFails(rows, url, entry_id, queryRaises) ==
    IF queryRaises THEN TRUE
    ELSE \E i \in DOMAIN rows : rows[i] = Key(url, entry_id)

AlreadyPostedOwnRowsOnly(rows, url, entry_id, queryRaises) ==
    IF queryRaises THEN FALSE
    ELSE \E i \in DOMAIN rows : rows[i] = Key(url, entry_id) /\ markedBy[i] \in {0, ai}

entry_already_posted(rows, url, entry_id, queryRaises) ==
    IF queryRaises THEN FALSE
    ELSE \E i \in DOMAIN rows : rows[i] = Key(url, entry_id)

\* mark_entry_as_posted: INSERT + commit.  The PRIMARY KEY (feed_url, entry_id)
\* of init_database rejects a second row with the same key (IntegrityError,
\* logged as a warning); any other sqlite3.Error (writeRaises) is logged.
\* Neither is re-raised.  Yields the table afterwards and how the call ended.
MarkNoPrimaryKey(rows, url, entry_id, writeRaises) ==
    IF writeRaises THEN [rows |-> rows, result |-> "Error"]
    ELSE [rows |-> Append(rows, Key(url, entry_id)), result |-> "inserted"]

mark_entry_as_posted(rows, url, entry_id, writeRaises) ==
    IF writeRaises THEN [rows |-> rows, result |-> "Error"]
    ELSE IF \E i \in DOMAIN rows : rows[i] = Key(url, entry_id)
         THEN [rows |-> rows, result |-> "IntegrityError"]
         ELSE [rows |-> Append(rows, Key(url, entry_id)), result |-> "inserted"]

\* --------------------------------------------------------------- feed fetcher
\* entry.get('id') or entry.get('link')
EntryId(entry) == IF entry.id # "" THEN entry.id ELSE entry.link

\* the for loop of get_latest_post from position i on: the index of the entry
\* it returns, 0 when it falls through to `return None`.  failing is the set
\* of positions whose dedup query raises.
RECURSIVE ScanLast(_, _, _, _, _)
ScanLast(entries, i, url, rows, failing) ==
    IF i > Len(entries) THEN 0
    ELSE LET later == ScanLast(entries, i + 1, url, rows, failing)
         IN  IF later # 0 THEN later
             ELSE IF EntryId(entries[i]) # ""
                     /\ ~entry_already_posted(rows, url, EntryId(entries[i]), i \in failing)
                  THEN i ELSE 0

RECURSIVE ScanEntries(_, _, _, _, _)
ScanEntries(entries, i, url, rows, failing) ==
    IF i > Len(entries) THEN 0
    ELSE IF EntryId(entries[i]) = "" THEN ScanEntries(entries, i + 1, url, rows, failing)
    ELSE IF ~entry_already_posted(rows, url, EntryId(entries[i]), i \in failing)
         THEN i
         ELSE ScanEntries(entries, i + 1, url, rows, failing)

\* get_latest_post once the feed was retrieved and parsed into entries:
\* <<>> is None, <<e>> the entry returned.
get_latest_post(url, rows, entries, failing) ==
    LET i == ScanEntries(entries, 1, url, rows, failing)
    IN  IF i = 0 THEN <<>> ELSE <<entries[i]>>

\* the positions in S that the scan reaches and queries: those of entries
\* with an identifier, up to the entry returned
Queried(entries, url, rows, failing, S) ==
    LET i == ScanEntries(entries, 1, url, rows, failing)
    IN  \A j \in S : /\ EntryId(entries[j]) # ""
                      /\ (i = 0 \/ j <= i)

MainEntryIdLinkFirst(p) == LET link == p.link IN IF link # "" THEN link ELSE p.id

\* main: entry_id = post.get('id') or link, with link = post.get('link', '')
MainEntryId(p) == LET link == p.link IN IF p.id # "" THEN p.id ELSE link

\* ------------------------------------------------------------- configuration
\* load_json_config: a file with a required field missing, or whose rss_feeds
\* is not a non-empty list, is skipped.
load_json_config(files) ==
    SelectSeq(files, LAMBDA c : c.complete /\ c.rss_feeds # <<>>)

\* check_credentials: every credential key must be present and non-empty
check_credentials(credentials) == credentials.api_key # ""

\* init_twitter_api: TRUE when a client is returned, FALSE for None.
\* verifyRaises: api.verify_credentials() raised a TweepyException.
init_twitter_api(credentials, verifyRaises) ==
    IF ~check_credentials(credentials) THEN FALSE
    ELSE ~verifyRaises

\* main, lines 261-263: `if not api: ... continue`
SkipNever(api) == FALSE

SkipAccount(api) == ~api

\* ---------------------------------------------------------- capability probe
\* What each step of is_elevated_access meets: the temp file is written
\* ("ok" / "oserror"), then media_upload, update_status, destroy_status each
\* return ("ok") or raise Forbidden ("forbidden") or another TweepyException
\* ("error"); update_status may also raise after the service created the
\* tweet, the response being lost ("lost").
ProbeOutcomes ==
    [file : {"ok", "oserror"}, upload : {"ok", "forbidden", "error"},
     status : {"ok", "forbidden", "error", "lost"}, destroy : {"ok", "forbidden", "error"}]

\* is_elevated_access: raised = an exception left the function; elevated = its
\* return value; tweet = the state of the throwaway tweet on return.
is_elevated_access(o) ==
    IF o.file # "ok" THEN [raised |-> TRUE, elevated |-> FALSE, tweet |-> "none"]
    ELSE IF o.upload # "ok" THEN [raised |-> FALSE, elevated |-> FALSE, tweet |-> "none"]
    ELSE IF o.status = "lost" THEN [raised |-> FALSE, elevated |-> FALSE, tweet |-> "live"]
    ELSE IF o.status # "ok" THEN [raised |-> FALSE, elevated |-> FALSE, tweet |-> "none"]
    ELSE IF o.destroy # "ok" THEN [raised |-> FALSE, elevated |-> FALSE, tweet |-> "live"]
    ELSE [raised |-> FALSE, elevated |-> TRUE, tweet |-> "deleted"]

\* what the steps of a probe met, in the order the probe makes them: "ok"
\* when every step returned, else what the first failing step met
ProbeKind(o) ==
    IF o.file # "ok" THEN o.file
    ELSE IF o.upload # "ok" THEN o.upload
    ELSE IF o.status # "ok" THEN o.status
    ELSE o.destroy

\* ------------------------------------------------------------------ publisher
TextTweet(text) == [op |-> "update_status", status |-> text, media |-> FALSE]

\* post_to_twitter up to the publish call: the calls it makes.  Both branches
\* of `if elevated and link` call api.update_status(status=tweet_text) only.
post_to_twitter(link, isElevated) ==
    IF isElevated /\ link # "" THEN <<TextTweet(link)>> ELSE <<TextTweet(link)>>

\* main: link = post.get('link', ''); post_to_twitter(api, link, ...)
MainPublishAttaching(p, isElevated) ==
    IF isElevated /\ p.image
    THEN <<[op |-> "download_image", status |-> "", media |-> TRUE],
           [op |-> "media_upload", status |-> "", media |-> TRUE],
           [op |-> "update_status", status |-> p.link, media |-> TRUE]>>
    ELSE post_to_twitter(p.link, isElevated)

MainPublishAlwaysAttaching(p, isElevated) ==
    IF p.image
    THEN <<[op |-> "download_image", status |-> "", media |-> TRUE],
           [op |-> "media_upload", status |-> "", media |-> TRUE],
           [op |-> "update_status", status |-> p.link, media |-> TRUE]>>
    ELSE post_to_twitter(p.link, isElevated)

MainPublish(p, isElevated) == post_to_twitter(p.link, isElevated)

\* post_to_twitter, lines 226-237: after update_status returned the function
\* goes on to time.sleep; a TweepyException jumps to the handler and returns
AfterPublishNoWait(accepted) == "mark"

AfterPublish(accepted) == IF accepted THEN "sleep" ELSE "mark"

\* time.sleep(delay_seconds) raises ValueError for a negative delay
SleepRaises(delay_seconds) == delay_seconds < 0

\* ------------------------------------------------------------------ top level
\* the exception, if any, that reaches the try of __main__
Raised(why) ==
    CASE why = "completed" -> "none"
      [] why = "interrupt" -> "KeyboardInterrupt"
      [] why \in {"config_dir", "no_config", "db_error"} -> "SystemExit1"
      [] why = "unexpected" -> "Exception"

\* __main__: KeyboardInterrupt -> sys.exit(0); Exception -> sys.exit(1);
\* sys.exit(1) raised inside main passes through; otherwise the script ends 0.
TopLevelSwapped(raised) ==
    CASE raised = "none" -> 0
      [] raised = "KeyboardInterrupt" -> 1
      [] raised = "Exception" -> 0
      [] raised = "SystemExit1" -> 1

TopLevelInterruptFails(raised) ==
    CASE raised = "none" -> 0
      [] raised = "KeyboardInterrupt" -> 1
      [] raised = "Exception" -> 1
      [] raised = "SystemExit1" -> 1

TopLevel(raised) ==
    CASE raised = "none" -> 0
      [] raised = "KeyboardInterrupt" -> 0
      [] raised = "Exception" -> 1
      [] raised = "SystemExit1" -> 1

\* ------------------------------------------------------------ initial states
\* rows left in the table by earlier runs: each subset of the keys of feed f1
StoreChoices ==
    {SelectSeq(<<Key("f1", "e1"), Key("f1", "l2"), Key("f1", "e3")>>,
               LAMBDA k : k \in S) :
        S \in SUBSET {Key("f1", "e1"), Key("f1", "l2"), Key("f1", "e3")}}

\* contents of the config directory
ConfigChoices ==
    {<<>>, <<AccountBad, AccountNoFeeds>>, <<AccountA, AccountB>>,
     <<AccountB, AccountA>>, <<AccountNoKey, AccountBad, AccountSolo>>}

\* no probe was made yet in this run
NoProbe == [account |-> 0, kind |-> "none", result |-> "none"]

RunLocalsInit ==
    /\ pc = "start"
    /\ configs = <<>>
    /\ ai = 0
    /\ fi = 0
    /\ feed_url = ""
    /\ elevated = FALSE
    /\ post = <<>>
    /\ retrieved = FALSE
    /\ failedQueries = {}
    /\ published = FALSE
    /\ apiCalls = <<>>
    /\ paced = FALSE
    /\ markResult = "none"
    /\ apiOK = {}
    /\ apiFailed = {}
    /\ probed = <<>>
    /\ probeTweet = "none"
    /\ lastProbe = NoProbe
    /\ passed = <<>>
    /\ publishLog = <<>>
    /\ fetched = {}
    /\ cause = "running"
    /\ exitCode = 0 - 1

\* download_image has no caller in main: during a run it is never entered
DownloadIdle ==
    /\ dl_pc = "idle"
    /\ dl_clock = 0
    /\ dl_files = {}
    /\ dl_name = 0
    /\ dl_chunks = 0
    /\ dl_written = 0
    /\ dl_result = <<>>

\* Either several accounts on a fresh database, or one account with one feed
\* of any content on a database that earlier runs have filled.
Init ==
    /\ run = 1
    /\ \/ /\ configFiles \in ConfigChoices
          /\ feed = [u \in FeedUrls |-> IF u = "f1" THEN <<E1, E2>> ELSE <<E3>>]
          /\ posted_entries = <<>>
       \/ /\ configFiles = <<AccountSolo>>
          /\ feed \in {[u \in FeedUrls |-> IF u = "f1" THEN s ELSE <<>>] : s \in FeedSeqs}
          /\ posted_entries \in StoreChoices
    /\ runStart = Len(posted_entries)
    /\ prevStart = Len(posted_entries)
    /\ markedBy = [i \in DOMAIN posted_entries |-> 0]
    /\ RunLocalsInit
    /\ DownloadIdle

\* -------------------------------------------------------------------- actions
config == configs[ai]
feeds == config.rss_feeds

\* the process ends: pc, cause and the exit code __main__ gives
Exit(why) ==
    /\ pc' = "exit"
    /\ cause' = why
    /\ exitCode' = TopLevel(Raised(why))

\* main, lines 243-246: load_json_config; sys.exit(1) when the directory is
\* missing or no file is valid
LoadConfig ==
    /\ pc = "start"
    /\ \E dirExists \in BOOLEAN :
        IF ~dirExists
        THEN Exit("config_dir") /\ UNCHANGED configs
        ELSE /\ configs' = load_json_config(configFiles)
             /\ IF configs' = <<>>
                THEN Exit("no_config")
                ELSE pc' = "initdb" /\ UNCHANGED <<cause, exitCode>>
    /\ UNCHANGED <<dlvars, markedBy, publishLog, lastProbe, passed, run, configFiles, feed, posted_entries, runStart, prevStart,
                   ai, fi, feed_url, elevated, post, retrieved, failedQueries, published,
                   apiCalls, paced, markResult, apiOK, apiFailed, probed,
                   probeTweet, fetched>>

\* main, line 249: init_database; sys.exit(1) on sqlite3.Error
InitDatabase ==
    /\ pc = "initdb"
    /\ \E opened \in BOOLEAN :
        IF opened
        THEN pc' = "account" /\ ai' = 1 /\ UNCHANGED <<cause, exitCode>>
        ELSE Exit("db_error") /\ UNCHANGED ai
    /\ UNCHANGED <<dlvars, markedBy, publishLog, lastProbe, passed, run, configFiles, feed, posted_entries, runStart, prevStart,
                   configs, fi, feed_url, elevated, post, retrieved, failedQueries, published,
                   apiCalls, paced, markResult, apiOK, apiFailed, probed,
                   probeTweet, fetched>>

\* main, lines 252-263: next account; init_twitter_api; skip it when None
InitTwitterApi ==
    /\ pc = "account"
    /\ ai <= Len(configs)
    /\ \E verifyRaises \in BOOLEAN :
        LET api == init_twitter_api(config, verifyRaises)
        IN  /\ apiOK' = IF api THEN apiOK \cup {ai} ELSE apiOK
            /\ apiFailed' = IF api THEN apiFailed ELSE apiFailed \cup {ai}
            /\ IF SkipAccount(api)
               THEN pc' = "account" /\ ai' = ai + 1
               ELSE pc' = "probe" /\ UNCHANGED ai
    /\ UNCHANGED <<dlvars, markedBy, publishLog, lastProbe, passed, run, configFiles, feed, posted_entries, runStart, prevStart,
                   configs, fi, feed_url, elevated, post, retrieved, failedQueries, published,
                   apiCalls, paced, markResult, probed, probeTweet, fetched,
                   cause, exitCode>>

\* main, line 266: elevated = is_elevated_access(api)
IsElevatedAccess ==
    /\ pc = "probe"
    /\ \E o \in ProbeOutcomes :
        LET r == is_elevated_access(o)
        IN  /\ probed' = Append(probed, ai)
            /\ probeTweet' = r.tweet
            /\ lastProbe' = [account |-> ai, kind |-> ProbeKind(o),
                             result |-> IF r.raised THEN "raised"
                                        ELSE IF r.elevated THEN "elevated"
                                        ELSE "restricted"]
            /\ IF r.raised
               THEN Exit("unexpected") /\ UNCHANGED <<elevated, fi>>
               ELSE /\ elevated' = r.elevated
                    /\ fi' = 1
                    /\ pc' = "feed"
                    /\ UNCHANGED <<cause, exitCode>>
    /\ UNCHANGED <<dlvars, markedBy, publishLog, passed, run, configFiles, feed, posted_entries, runStart, prevStart,
                   configs, ai, feed_url, post, retrieved, failedQueries, published,
                   apiCalls, paced, markResult, apiOK, apiFailed, fetched>>

\* the for loop over feeds, with the probe moved inside the loop
NextFeedReprobe ==
    IF fi < Len(feeds)
    THEN pc' = "probe" /\ fi' = fi + 1 /\ UNCHANGED ai
    ELSE pc' = "account" /\ ai' = ai + 1 /\ UNCHANGED fi

\* the for loop over feeds left at the first feed without a post
NextFeedSkipsAccount == pc' = "account" /\ ai' = ai + 1 /\ UNCHANGED fi

\* the for loop over feeds moves on: next feed, or next account after the last
NextFeed ==
    IF fi < Len(feeds)
    THEN pc' = "feed" /\ fi' = fi + 1 /\ UNCHANGED ai
    ELSE pc' = "account" /\ ai' = ai + 1 /\ UNCHANGED fi

\* main, lines 271-276 and 282-283: post = get_latest_post(feed_url, conn).
\* retrieved = FALSE: requests.get / raise_for_status / parsing raised, which
\* get_latest_post logs and answers with None.
GetLatestPost ==
    /\ pc = "feed"
    /\ feed_url' = feeds[fi]
    /\ fetched' = fetched \cup {<<ai, fi>>}
    /\ \E ok \in BOOLEAN, failing \in SUBSET (1..Len(feed[feeds[fi]])) :
        LET entries == feed[feeds[fi]]
        IN  /\ Queried(entries, feeds[fi], posted_entries, failing, failing)
            /\ retrieved' = ok
            /\ failedQueries' = IF ok THEN failing ELSE {}
            /\ post' = IF ok
                       THEN get_latest_post(feeds[fi], posted_entries, entries, failing)
                       ELSE <<>>
    /\ IF post' # <<>>
       THEN pc' = "publish" /\ UNCHANGED <<ai, fi>>
       ELSE NextFeed
    /\ published' = FALSE
    /\ apiCalls' = <<>>
    /\ passed' = <<>>
    /\ paced' = FALSE
    /\ markResult' = "none"
    /\ UNCHANGED <<dlvars, markedBy, publishLog, lastProbe, run, configFiles, feed, posted_entries, runStart, prevStart,
                   configs, elevated, apiOK, apiFailed, probed, probeTweet,
                   cause, exitCode>>

\* post_to_twitter, lines 221-231 and 236-237: the publish call.  A
\* TweepyException (accepted = FALSE) is logged and the function returns.
PostToTwitter ==
    /\ pc = "publish"
    /\ apiCalls' = MainPublish(post[1], elevated)
    /\ passed' = <<elevated>>
    /\ \E accepted \in BOOLEAN :
        /\ published' = accepted
        /\ pc' = AfterPublish(accepted)
        /\ publishLog' = Append(publishLog, [account |-> ai, feed |-> fi,
                                             accepted |-> accepted, waited |-> <<>>])
    /\ UNCHANGED <<dlvars, markedBy, lastProbe, run, configFiles, feed, posted_entries, runStart, prevStart,
                   configs, ai, fi, feed_url, elevated, post, retrieved, failedQueries,
                   paced, markResult, apiOK, apiFailed, probed, probeTweet,
                   fetched, cause, exitCode>>

\* post_to_twitter, lines 233-235: time.sleep(delay_seconds).  The ValueError
\* of a negative delay is no TweepyException: it leaves post_to_twitter and
\* main and reaches the `except Exception` of __main__.
Pace ==
    /\ pc = "sleep"
    /\ IF SleepRaises(config.delay_seconds)
       THEN Exit("unexpected") /\ UNCHANGED <<paced, publishLog>>
       ELSE /\ pc' = "mark"
            /\ paced' = TRUE
            /\ publishLog' = [publishLog EXCEPT
                                 ![Len(publishLog)].waited = <<config.delay_seconds>>]
            /\ UNCHANGED <<cause, exitCode>>
    /\ UNCHANGED <<dlvars, markedBy, lastProbe, passed, run, configFiles, feed, posted_entries, runStart, prevStart,
                   configs, ai, fi, feed_url, elevated, post, retrieved, failedQueries,
                   published, apiCalls, markResult, apiOK, apiFailed, probed,
                   probeTweet, fetched>>

\* main, lines 279-281: entry_id = post.get('id') or link;
\* mark_entry_as_posted(conn, feed_url, entry_id); then the loop moves on
MarkEntryAsPosted ==
    /\ pc = "mark"
    /\ \E writeRaises \in BOOLEAN :
        LET r == mark_entry_as_posted(posted_entries, feed_url,
                                      MainEntryId(post[1]), writeRaises)
        IN  /\ posted_entries' = r.rows
            /\ markResult' = r.result
            /\ markedBy' = IF r.result = "inserted" THEN Append(markedBy, ai)
                           ELSE markedBy
    /\ NextFeed
    /\ UNCHANGED <<dlvars, publishLog, lastProbe, passed, run, configFiles, feed, runStart, prevStart, configs,
                   feed_url, elevated, post, retrieved, failedQueries, published, apiCalls,
                   paced, apiOK, apiFailed, probed, probeTweet, fetched,
                   cause, exitCode>>

\* main, lines 285-287: every account was attempted; conn.close(); return
Finish ==
    /\ pc = "account"
    /\ ai > Len(configs)
    /\ Exit("completed")
    /\ UNCHANGED <<dlvars, markedBy, publishLog, lastProbe, passed, run, configFiles, feed, posted_entries, runStart, prevStart,
                   configs, ai, fi, feed_url, elevated, post, retrieved, failedQueries,
                   published, apiCalls, paced, markResult, apiOK, apiFailed,
                   probed, probeTweet, fetched>>

\* __main__, lines 292-294: the user aborts the run (KeyboardInterrupt) at
\* whatever statement main is executing
Interrupt ==
    /\ pc \notin {"exit"}
    /\ Exit("interrupt")
    /\ UNCHANGED <<dlvars, markedBy, publishLog, lastProbe, passed, run, configFiles, feed, posted_entries, runStart, prevStart,
                   configs, ai, fi, feed_url, elevated, post, retrieved, failedQueries,
                   published, apiCalls, paced, markResult, apiOK, apiFailed,
                   probed, probeTweet, fetched>>

\* the script is started again: same config directory, same feeds, and the
\* database file the previous run left
StartNextRun ==
    /\ pc = "exit"
    /\ run < MaxRuns
    /\ run' = run + 1
    /\ prevStart' = runStart
    /\ runStart' = Len(posted_entries)
    /\ pc' = "start"
    /\ configs' = <<>>
    /\ ai' = 0
    /\ fi' = 0
    /\ feed_url' = ""
    /\ elevated' = FALSE
    /\ post' = <<>>
    /\ retrieved' = FALSE
    /\ failedQueries' = {}
    /\ published' = FALSE
    /\ apiCalls' = <<>>
    /\ paced' = FALSE
    /\ markResult' = "none"
    /\ apiOK' = {}
    /\ apiFailed' = {}
    /\ probed' = <<>>
    /\ probeTweet' = "none"
    /\ lastProbe' = NoProbe
    /\ passed' = <<>>
    /\ publishLog' = <<>>
    /\ fetched' = {}
    /\ cause' = "running"
    /\ exitCode' = 0 - 1
    /\ UNCHANGED <<dlvars, configFiles, feed, posted_entries, markedBy>>

Next ==
    \/ LoadConfig
    \/ InitDatabase
    \/ InitTwitterApi
    \/ IsElevatedAccess
    \/ GetLatestPost
    \/ PostToTwitter
    \/ Pace
    \/ MarkEntryAsPosted
    \/ Finish
    \/ Interrupt
    \/ StartNextRun

Spec == Init /\ [][Next]_vars

\* ------------------------------------------------------------ download_image
\* download_image is defined by the script but called from nowhere.  Its
\* behaviour is explored on its own: a caller stages images one after the
\* other while the clock advances.
mainvars == <<pc, run, configFiles, feed, posted_entries, runStart, prevStart,
              configs, ai, fi, feed_url, elevated, post, retrieved,
              failedQueries, published, apiCalls, paced, markResult, apiOK,
              apiFailed, probed, probeTweet, lastProbe, passed, publishLog, markedBy,
              fetched, cause, exitCode>>

InitDownload ==
    /\ run = 1
    /\ configFiles = <<>>
    /\ feed = [u \in FeedUrls |-> <<>>]
    /\ posted_entries = <<>>
    /\ markedBy = <<>>
    /\ runStart = 0
    /\ prevStart = 0
    /\ RunLocalsInit
    /\ DownloadIdle

\* line 207: filename = BASE_DIR / f'temp_image_{int(time.time())}.jpg'
DownloadCall ==
    /\ dl_pc = "idle"
    /\ dl_pc' = "get"
    /\ dl_name' = dl_clock
    /\ dl_written' = 0
    /\ dl_result' = <<>>
    /\ \E n \in 0..MaxChunks : dl_chunks' = n
    /\ UNCHANGED <<dl_clock, dl_files, mainvars>>

\* lines 209-210 and 215-217: requests.get(..., stream=True) and
\* raise_for_status(); a RequestException is logged and None is returned
DownloadGet ==
    /\ dl_pc = "get"
    /\ \E answer \in {"ok", "RequestException"} :
        IF answer = "ok"
        THEN dl_pc' = "open" /\ UNCHANGED dl_result
        ELSE dl_pc' = "returned" /\ dl_result' = <<>>
    /\ UNCHANGED <<dl_clock, dl_files, dl_name, dl_chunks, dl_written, mainvars>>

\* line 211: filename.open('wb') creates (or truncates) the file
DownloadOpen ==
    /\ dl_pc = "open"
    /\ dl_pc' = "stream"
    /\ dl_files' = dl_files \cup {dl_name}
    /\ UNCHANGED <<dl_clock, dl_name, dl_chunks, dl_written, dl_result, mainvars>>

\* lines 212-217: the next chunk is read and written, or reading it raises a
\* RequestException (logged, None returned), or the body is exhausted and the
\* filename is returned.  No path removes the file.
DownloadChunk ==
    /\ dl_pc = "stream"
    /\ IF dl_written = dl_chunks
       THEN /\ dl_pc' = "returned"
            /\ dl_result' = <<dl_name>>
            /\ UNCHANGED dl_written
       ELSE \E chunk \in {"ok", "RequestException"} :
              IF chunk = "ok"
              THEN /\ dl_written' = dl_written + 1
                   /\ UNCHANGED <<dl_pc, dl_result>>
              ELSE /\ dl_pc' = "returned"
                   /\ dl_result' = <<>>
                   /\ UNCHANGED dl_written
    /\ UNCHANGED <<dl_clock, dl_files, dl_name, dl_chunks, mainvars>>

\* the caller has its answer and may stage another image later
DownloadDone ==
    /\ dl_pc = "returned"
    /\ dl_pc' = "idle"
    /\ UNCHANGED <<dl_clock, dl_files, dl_name, dl_chunks, dl_written, dl_result, mainvars>>

\* a second passes
Tick ==
    /\ dl_clock < MaxClock
    /\ dl_clock' = dl_clock + 1
    /\ UNCHANGED <<dl_pc, dl_files, dl_name, dl_chunks, dl_written, dl_result, mainvars>>

NextDownload ==
    \/ DownloadCall
    \/ DownloadGet
    \/ DownloadOpen
    \/ DownloadChunk
    \/ DownloadDone
    \/ Tick

SpecDownload == InitDownload /\ [][NextDownload]_vars

\* ============================================================ properties
\* helpers of the statements below
Running == pc # "exit"
Accounts == 1..Len(configs)
PostKey == Key(feed_url, EntryId(post[1]))
\* rows inserted during the previous run
MarkedPrev == {posted_entries[i] : i \in (prevStart + 1)..runStart}
\* entries of a feed that have an identifier
Identifiable(entries) == {i \in DOMAIN entries : EntryId(entries[i]) # ""}
\* no mark_entry_as_posted call has followed the last get_latest_post call
JustFetched == feed_url # "" /\ markResult = "none"
CountRows(k) == Cardinality({i \in DOMAIN posted_entries : posted_entries[i] = k})
Attaches(calls) == \E i \in DOMAIN calls : calls[i].media \/ calls[i].op # "update_status"

\* ---------------------------------------------------------------------- C1
\* C1: a row (feed_url, entry_id) is inserted only after the publish call
\* for that entry succeeded; after a failed publish the entry is not added
\* to the dedup store.
C1_RecordOnlyAfterPublish ==
    markResult = "inserted" => published

\* ---------------------------------------------------------------------- C2
\* C2 (as claimed): in a second run against the same feeds and the persisted
\* store, no entry marked in the first run is returned by get_latest_post
\* (hence none is published), and a feed whose identifiable entries were all
\* marked in the first run yields no entry.
C2_NoDoublePost ==
    (run >= 2 /\ feed_url # "" /\ retrieved) =>
        /\ post # <<>> => PostKey \notin MarkedPrev
        /\ (\A i \in Identifiable(feed[feed_url]) :
                Key(feed_url, EntryId(feed[feed_url][i])) \in MarkedPrev)
            => post = <<>>

\* C2 (amended): the same, for every entry whose dedup query did not raise:
\* an entry marked in the first run is returned in the second run only when
\* its own dedup query failed, and a feed whose identifiable entries were all
\* marked yields no entry when no dedup query failed.
C2_NoDoublePostUnlessQueryFails ==
    (run >= 2 /\ feed_url # "" /\ retrieved) =>
        /\ (post # <<>> /\ PostKey \in MarkedPrev) =>
              \E i \in failedQueries : feed[feed_url][i] = post[1]
        /\ ((\A i \in Identifiable(feed[feed_url]) :
                Key(feed_url, EntryId(feed[feed_url][i])) \in MarkedPrev)
            /\ failedQueries = {})
            => post = <<>>

\* a second run skips an entry marked in the first run and finds nothing new
C2_Witness ==
    /\ run = 2 /\ feed_url # "" /\ retrieved /\ failedQueries = {}
    /\ Identifiable(feed[feed_url]) # {}
    /\ \A i \in Identifiable(feed[feed_url]) :
          Key(feed_url, EntryId(feed[feed_url][i])) \in MarkedPrev
    /\ post = <<>>

\* ---------------------------------------------------------------------- C3
\* the first entry in feed order that has an identifier and satisfies new(i)
FirstSuch(entries, new(_)) ==
    LET S == {i \in Identifiable(entries) : new(i)}
    IN  IF S = {} THEN <<>>
        ELSE <<entries[CHOOSE i \in S : \A j \in S : i <= j]>>

\* C3 (as claimed): get_latest_post returns at most one entry, exactly the
\* first entry in feed order whose identifier is non-empty and whose
\* (feed_url, identifier) is not in the dedup store, and nothing when there is
\* none; once main has marked the returned entry, its key is in the store, so
\* that the next call moves on to the next unposted entry.
C3_FirstUnposted ==
    /\ Len(post) <= 1
    /\ (JustFetched /\ retrieved) =>
          post = FirstSuch(feed[feed_url],
                    LAMBDA i : Key(feed_url, EntryId(feed[feed_url][i]))
                                 \notin Rows(posted_entries))
    /\ markResult = "inserted" => PostKey \in Rows(posted_entries)

\* C3 (amended): the entry returned is the first one in feed order whose
\* identifier is non-empty and that entry_already_posted does not report as
\* posted: its key is not in the store, or its dedup query failed.
C3_FirstNotReportedPosted ==
    /\ Len(post) <= 1
    /\ (JustFetched /\ retrieved) =>
          post = FirstSuch(feed[feed_url],
                    LAMBDA i : \/ Key(feed_url, EntryId(feed[feed_url][i]))
                                    \notin Rows(posted_entries)
                                \/ i \in failedQueries)
    /\ markResult = "inserted" => PostKey \in Rows(posted_entries)

\* feed [E1(new), E2(new), E3(posted)]: E1 was returned and marked in the
\* first run, the call of the second run returns E2
C3_Witness ==
    /\ run = 2 /\ JustFetched /\ retrieved /\ failedQueries = {}
    /\ feed[feed_url] = <<E1, E2, E3>>
    /\ MarkedPrev = {Key(feed_url, "e1")}
    /\ Key(feed_url, "e3") \in Rows(posted_entries)
    /\ post = <<E2>>

\* ---------------------------------------------------------------------- C4
\* C4 (as claimed): the store never holds two rows with the same key, and
\* after mark_entry_as_posted returns, however often it was called with that
\* key, the store holds exactly one row for it.
C4_ExactlyOneRow ==
    /\ \A i, j \in DOMAIN posted_entries :
          posted_entries[i] = posted_entries[j] => i = j
    /\ markResult # "none" => CountRows(Key(feed_url, MainEntryId(post[1]))) = 1

\* C4 (amended): mark_entry_as_posted never raises; the store never holds two
\* rows with the same key; a call leaves every existing row as it was and
\* adds at most the row of its key; afterwards the store holds exactly one
\* row for the key unless the insert failed with a storage error other than
\* the duplicate-key error, in which case the store is unchanged.
C4_AtMostOneRow ==
    /\ [](/\ \A i, j \in DOMAIN posted_entries :
                posted_entries[i] = posted_entries[j] => i = j
          /\ markResult \in {"inserted", "IntegrityError"} =>
                CountRows(Key(feed_url, MainEntryId(post[1]))) = 1)
    /\ [][/\ pc = "mark" =>
                /\ pc' # "exit" \/ cause' = "interrupt"
                /\ \/ posted_entries' = posted_entries
                   \/ posted_entries' =
                        Append(posted_entries, Key(feed_url, MainEntryId(post[1])))
                /\ markResult' = "Error" => posted_entries' = posted_entries
          /\ pc # "mark" => posted_entries' = posted_entries]_vars

\* the key was already in the store when mark_entry_as_posted was called: the
\* duplicate insert was absorbed
C4_Witness ==
    /\ markResult = "IntegrityError"
    /\ CountRows(Key(feed_url, MainEntryId(post[1]))) = 1

\* ---------------------------------------------------------------------- C5
\* C5: when the client initialisation of some account failed and that of
\* account b succeeded, in either order, then once the run has ended (other
\* than by a user abort) every feed of b was fetched and b's successful post
\* is recorded in the dedup store (or its insert was attempted and failed with
\* a logged storage error).
C5_FailureIsolation ==
    (pc = "exit" /\ cause # "interrupt" /\ apiFailed # {}) =>
        \A b \in apiOK :
            /\ \A i \in DOMAIN configs[b].rss_feeds : <<b, i>> \in fetched
            /\ (ai = b /\ published) =>
                  \/ PostKey \in Rows(posted_entries)
                  \/ markResult = "Error"

\* ---------------------------------------------------------------------- C6
\* C6: once configuration loading yielded a valid account and the store
\* opened, the run ends (unless the user aborts it) only by reaching DONE
\* with exit code 0 after every configured account was attempted: no
\* exception of a per-feed step or of the capability probe terminates it.
C6_RunCompletes ==
    (pc = "exit" /\ cause \notin {"config_dir", "no_config", "db_error", "interrupt"}) =>
        /\ cause = "completed"
        /\ exitCode = 0
        /\ apiOK \cup apiFailed = Accounts

\* ---------------------------------------------------------------------- C7
StartupFailures == {"config_dir", "no_config", "db_error"}

\* C7: the exit code is 0 exactly on normal completion or user interrupt and
\* 1 exactly on a fatal startup failure (no valid account loaded, store not
\* opened) or an unexpected top-level error; after a startup failure no
\* account was initialised or probed, no feed fetched, nothing published and
\* no row recorded.
C7_ExitCodes ==
    /\ Running => exitCode = 0 - 1 /\ cause = "running"
    /\ ~Running =>
        /\ exitCode \in {0, 1}
        /\ exitCode = 0 <=> cause \in {"completed", "interrupt"}
        /\ exitCode = 1 <=> cause \in StartupFailures \cup {"unexpected"}
        /\ cause = "completed" => apiOK \cup apiFailed = Accounts
        /\ load_json_config(configFiles) = <<>> => cause \in StartupFailures \cup {"interrupt"}
        /\ (cause \in StartupFailures \/ load_json_config(configFiles) = <<>>) =>
              /\ apiOK = {} /\ apiFailed = {} /\ probed = <<>> /\ fetched = {}
              /\ apiCalls = <<>> /\ ~published
              /\ Len(posted_entries) = runStart

\* the config directory holds files, none of them valid: exit code 1
C7_Witness ==
    /\ pc = "exit" /\ cause = "no_config" /\ exitCode = 1
    /\ configFiles # <<>>

\* ---------------------------------------------------------------------- C8
\* C8: whenever is_elevated_access has returned, with either result, no
\* throwaway test post of the probe remains on the destination service.
C8_ProbeRetracted ==
    probed # <<>> => probeTweet # "live"

\* ---------------------------------------------------------------------- C9
\* C9: when the account is restricted or the entry has no image reference,
\* post_to_twitter makes no attachment step (no image download, no media
\* upload) and exactly one publish call, text-only, carrying the link; the
\* publish succeeds exactly when that one call is accepted.
C9_RestrictedTextOnly ==
    (apiCalls # <<>> /\ (~elevated \/ ~post[1].image)) =>
        /\ apiCalls = <<TextTweet(post[1].link)>>
        /\ ~Attaches(apiCalls)
        /\ pc = "sleep" => published

\* a restricted account has published an entry that carries an image
C9_Witness ==
    /\ apiCalls # <<>> /\ ~elevated /\ post[1].image /\ published

\* --------------------------------------------------------------------- C10
\* C10 (as claimed): the publish step makes an attachment step (stages the
\* image and attaches it to the publish call) if and only if the account is
\* elevated and the entry has an image reference.
C10_AttachIffElevatedAndImage ==
    apiCalls # <<>> => (Attaches(apiCalls) <=> (elevated /\ post[1].image))

\* C10 (amended): the publish step never makes an attachment step: also when
\* the account is elevated and the entry has an image reference it makes
\* exactly one text-only publish call carrying the link, and download_image
\* is never called.
C10_NeverAttaches ==
    /\ \A i \in DOMAIN apiCalls : apiCalls[i].op = "update_status" /\ ~apiCalls[i].media
    /\ (apiCalls # <<>> /\ elevated /\ post[1].image) =>
          apiCalls = <<TextTweet(post[1].link)>>

\* an elevated account has published an entry that carries an image
C10_Witness ==
    /\ apiCalls # <<>> /\ elevated /\ post[1].image /\ published

\* --------------------------------------------------------------------- C11
\* C11: the temporary image file of download_image never outlives the staging
\* attempt: when download_image has returned without a staged image (the
\* download failed, also part-way through the stream), its temporary file
\* does not exist.
C11_NoTempFileLeft ==
    (dl_pc = "returned" /\ dl_result = <<>>) => dl_name \notin dl_files

\* --------------------------------------------------------------------- C12
NoRepeats(seq) == \A i, j \in DOMAIN seq : seq[i] = seq[j] => i = j
InSeq(x, seq) == \E i \in DOMAIN seq : seq[i] = x

\* C12: in a run no account is probed twice, an account is probed only if its
\* client initialised, an initialised account is probed before any of its
\* feeds is fetched, and the flag passed to every publish of the account is
\* the result of that one probe.
C12_ProbeOncePerAccount ==
    /\ NoRepeats(probed)
    /\ \A a \in DOMAIN configs :
        /\ InSeq(a, probed) => a \in apiOK /\ a \notin apiFailed
        /\ (a \in apiOK /\ (a < ai \/ pc \in {"feed", "publish", "sleep", "mark"}))
              => InSeq(a, probed)
        /\ (\E i \in DOMAIN configs[a].rss_feeds : <<a, i>> \in fetched)
              => InSeq(a, probed)
    /\ pc \in {"sleep", "mark"} =>
        /\ lastProbe.account = ai
        /\ passed = <<lastProbe.result = "elevated">>

\* the second feed of an account is published with the flag of the account's
\* one probe
C12_Witness ==
    /\ pc = "mark" /\ fi = 2 /\ probed = <<ai>>
    /\ passed = <<TRUE>> /\ lastProbe.result = "elevated"

\* --------------------------------------------------------------------- C13
\* C13: is_elevated_access returns elevated exactly when every probe step
\* succeeded, restricted on a permission-denied response, and restricted on
\* any other failure of a probe step, without raising out of the prober.
C13_ProbeClassification ==
    lastProbe.kind # "none" =>
        /\ lastProbe.result = "elevated" <=> lastProbe.kind = "ok"
        /\ lastProbe.kind # "ok" => lastProbe.result = "restricted"

\* --------------------------------------------------------------------- C14
\* C14: an account whose credentials are missing or whose client verification
\* fails is skipped: it is never probed, none of its feeds is fetched, nothing
\* is published or written to the dedup store while it is the current account,
\* and processing continues with the next account.
C14_SkippedAccountUntouched ==
    /\ [](/\ \A a \in apiFailed :
                /\ ~InSeq(a, probed)
                /\ \A i \in DOMAIN configs[a].rss_feeds : <<a, i>> \notin fetched
          /\ pc \in {"probe", "feed", "publish", "sleep", "mark"} => ai \notin apiFailed)
    /\ [][(pc = "account" /\ ai \in apiFailed' /\ pc' # "exit") =>
              /\ pc' = "account" /\ ai' = ai + 1
              /\ posted_entries' = posted_entries
              /\ apiCalls' = apiCalls /\ fetched' = fetched /\ probed' = probed]_vars

\* the first account was skipped for its empty credential, the next one is
\* being processed
C14_Witness ==
    /\ apiFailed = {1} /\ ~check_credentials(configs[1])
    /\ ai = 2 /\ pc = "publish"

\* --------------------------------------------------------------------- C15
\* C15: every accepted publish is followed by a sleep of the account's
\* delay_seconds before the run marks, fetches or publishes again, so every
\* accepted publish but a still pending last one has its sleep on record; a
\* refused publish is followed by no sleep.
C15_PacingAfterPublish ==
    /\ [](\A k \in DOMAIN publishLog :
            LET c == publishLog[k]
            IN  /\ ~c.accepted => c.waited = <<>>
                /\ (c.accepted /\ (k < Len(publishLog) \/ pc \notin {"sleep", "exit"}))
                      => c.waited = <<configs[c.account].delay_seconds>>)
    /\ [](pc = "sleep" => published /\ ~paced)
    /\ [][(published /\ ~paced /\ pc' \in {"mark", "feed", "publish", "account"})
              => (pc = "sleep" /\ pc' = "mark" /\ paced')]_vars

\* two accepted publishes of one run, the first one with its 30 s sleep done
C15_Witness ==
    /\ Len(publishLog) = 2 /\ pc = "sleep"
    /\ publishLog[1].accepted /\ publishLog[1].waited = <<DEFAULT_DELAY>>
    /\ publishLog[2].accepted

\* --------------------------------------------------------------------- C16
\* C16: when retrieving or parsing a feed fails, get_latest_post answers None
\* and raises nothing: the step publishes nothing, leaves the store as it is
\* and goes on with the next feed of the account (the next account after the
\* last feed); publish, sleep and mark are only ever reached with a retrieved
\* feed and an entry.
C16_FetchFailureContained ==
    /\ [](pc \in {"publish", "sleep", "mark"} => retrieved /\ post # <<>>)
    /\ [][(pc = "feed" /\ pc' # "exit" /\ ~retrieved') =>
              /\ post' = <<>>
              /\ posted_entries' = posted_entries
              /\ publishLog' = publishLog
              /\ cause' = cause
              /\ IF fi < Len(feeds)
                 THEN pc' = "feed" /\ fi' = fi + 1 /\ ai' = ai
                 ELSE pc' = "account" /\ ai' = ai + 1]_vars

\* the first feed of the account has a new entry but could not be fetched:
\* nothing was published or stored for it and the second feed is published
C16_Witness ==
    /\ ai = 1 /\ fi = 2 /\ pc = "publish"
    /\ publishLog = <<>> /\ posted_entries = <<>>
    /\ feed[feeds[1]] # <<>> /\ EntryId(feed[feeds[1]][1]) # ""

\* --------------------------------------------------------------------- C17
\* C17: a dedup query that fails makes entry_already_posted answer False, so
\* the entry it was asked about is the one returned and the run goes on to
\* publish it; a write that fails in mark_entry_as_posted leaves the store
\* unchanged and returns, and the run goes on with the next feed.
C17_StorageErrorsContained ==
    /\ []((JustFetched /\ retrieved /\ failedQueries # {}) =>
            /\ post # <<>>
            /\ \A j \in failedQueries : post[1] = feed[feed_url][j])
    /\ [][pc = "feed" =>
              /\ pc' = "exit" => cause' = "interrupt"
              /\ (pc' # "exit" /\ failedQueries' # {}) => pc' = "publish"]_vars
    /\ [][(pc = "mark" /\ markResult' = "Error") =>
              /\ posted_entries' = posted_entries
              /\ cause' = cause /\ exitCode' = exitCode
              /\ IF fi < Len(feeds)
                 THEN pc' = "feed" /\ fi' = fi + 1 /\ ai' = ai
                 ELSE pc' = "account" /\ ai' = ai + 1]_vars

\* the query for an entry that is in the store failed, the entry was returned
\* and published again, and the write that followed failed too
C17_Witness ==
    /\ markResult = "Error" /\ failedQueries # {} /\ published
    /\ PostKey \in Rows(posted_entries)
    /\ pc \in {"feed", "account"}

\* --------------------------------------------------------------------- C18
\* the returned entry has a row that another account inserted
MarkedByOther ==
    \E k \in DOMAIN posted_entries :
        /\ posted_entries[k] = Key(feed_url, EntryId(post[1]))
        /\ markedBy[k] \notin {0, ai}

\* another account has inserted a row for the feed URL being processed
OtherMarkedThisFeed ==
    \E k \in DOMAIN posted_entries :
        posted_entries[k][1] = feed_url /\ markedBy[k] \notin {0, ai}

\* C18 (as claimed): the dedup key has no account component, so an entry
\* marked while another account was processed is never returned (hence never
\* published) for the current account polling the same feed URL, in the same
\* or a later run; the current account gets the next unposted entry, if any.
C18_SharedDedup ==
    (JustFetched /\ retrieved /\ OtherMarkedThisFeed) =>
        /\ post # <<>> => ~MarkedByOther
        /\ post = FirstSuch(feed[feed_url],
                    LAMBDA i : Key(feed_url, EntryId(feed[feed_url][i]))
                                 \notin Rows(posted_entries))

\* C18 (amended): an entry marked while another account was processed is
\* returned for the current account only when its own dedup query failed;
\* the current account gets the first entry whose key is in nobody's rows or
\* whose query failed.
C18_SharedDedupUnlessQueryFails ==
    (JustFetched /\ retrieved /\ OtherMarkedThisFeed) =>
        /\ (post # <<>> /\ MarkedByOther) =>
              \E i \in failedQueries : feed[feed_url][i] = post[1]
        /\ post = FirstSuch(feed[feed_url],
                    LAMBDA i : \/ \A k \in DOMAIN posted_entries :
                                    posted_entries[k] #
                                        Key(feed_url, EntryId(feed[feed_url][i]))
                                \/ i \in failedQueries)

\* the second account polls the feed URL of the first: E1, marked while the
\* first account was processed, is passed over and E2 is returned
C18_Witness ==
    /\ ai = 2 /\ JustFetched /\ retrieved /\ failedQueries = {}
    /\ feed_url = "f1" /\ configs[1].rss_feeds[1] = "f1"
    /\ \E k \in DOMAIN posted_entries :
          posted_entries[k] = Key("f1", "e1") /\ markedBy[k] = 1
    /\ post = <<E2>>

\* --------------------------------------------------------------------- C19
\* C19: a user interrupt, at whatever point of the run it arrives (the sleep
\* after an accepted publish included), ends the process with exit code 0;
\* the interrupted step and everything after it in that run fetches,
\* publishes and marks nothing, so the store keeps exactly the rows it had
\* when the interrupt arrived.
C19_InterruptExitsClean ==
    /\ [](cause = "interrupt" => (pc = "exit" /\ exitCode = 0))
    /\ [][(cause' = "interrupt" /\ run' = run) =>
              /\ posted_entries' = posted_entries
              /\ markedBy' = markedBy
              /\ fetched' = fetched
              /\ publishLog' = publishLog
              /\ probed' = probed]_vars
    /\ [][cause = "interrupt" => run' = run + 1]_vars

\* interrupted while sleeping after an accepted publish: the sleep was not
\* completed and the published entry has no row
C19_Witness ==
    /\ cause = "interrupt" /\ exitCode = 0
    /\ published /\ ~paced
    /\ publishLog[Len(publishLog)].waited = <<>>
    /\ PostKey \notin Rows(posted_entries)

\* --------------------------------------------------------------------- C20
\* the (account, feed position) pairs of the accounts whose client initialised
FeedsOfInitialised ==
    UNION {{<<a, i>> : i \in DOMAIN configs[a].rss_feeds} : a \in apiOK}

\* C20: in one run each (account, feed) pair gets at most one publish call
\* and at most one insert; the inserted row has the feed URL being processed
\* and the id, else the link, of the entry the fetcher returned for it; the
\* table only ever grows at its end; so a run makes at most as many publish
\* calls as the initialised accounts have feeds.
C20_BoundedMonotoneEffect ==
    /\ [](/\ \A j, k \in DOMAIN publishLog :
                (publishLog[j].account = publishLog[k].account
                 /\ publishLog[j].feed = publishLog[k].feed) => j = k
          /\ \A k \in DOMAIN publishLog :
                <<publishLog[k].account, publishLog[k].feed>> \in FeedsOfInitialised
          /\ Len(publishLog) <= Cardinality(FeedsOfInitialised)
          /\ Len(posted_entries) - runStart <= Len(publishLog))
    /\ [][posted_entries' # posted_entries =>
              /\ pc = "mark" /\ pc' # "mark"
              /\ publishLog[Len(publishLog)].account = ai
              /\ publishLog[Len(publishLog)].feed = fi
              /\ posted_entries' =
                    Append(posted_entries,
                           <<config.rss_feeds[fi],
                             IF post[1].id # "" THEN post[1].id ELSE post[1].link>>)
              /\ (ai' = ai /\ fi' = fi + 1) \/ ai' = ai + 1]_vars
    /\ [][/\ Len(posted_entries') >= Len(posted_entries)
          /\ SubSeq(posted_entries', 1, Len(posted_entries)) = posted_entries]_vars

\* a completed run that published and inserted once for each of the three
\* feeds of its two accounts
C20_Witness ==
    /\ cause = "completed"
    /\ Cardinality(FeedsOfInitialised) = 3
    /\ Len(publishLog) = 3
    /\ Len(posted_entries) - runStart = 3

====
